---- MODULE Spec2Model ----
(***************************************************************************)
(* A model of the MOTU AVB client (coral/motu-avb-api): the Device of      *)
(* src/src/device.rs with its flat cache, background long-poll task,       *)
(* broadcast update bus, model projector task and write path, the value    *)
(* codec of src/src/value.rs and the bank builder of                       *)
(* src/src/definitions.rs.                                                 *)
(*                                                                         *)
(* Strings are sequences of tokens; the tokens ":" and "=" are the two     *)
(* delimiter characters the codec splits on, every other token is a run of *)
(* characters holding neither.  Keys are sequences of path segments.       *)
(***************************************************************************)
EXTENDS Integers, Sequences, FiniteSets, TLC

\* ------------------------------------------------------------------ bounds
\* The operations one run starts (connections that pass the health check,
\* poll requests, set_keys calls, subscriptions), all together
MaxOps == 4
\* The same for a run that outruns the buffer of the update bus
MaxLagOps == 67

\* The same for a run that ends with the Device dropped
MaxCancelOps == 3
\* The same for a run that follows the projector task
MaxProjOps == 4
MaxChanOps == 4
MaxCodecOps == 3
MaxFaultOps == 4
MaxReqOps == 3

\* tokio::sync::broadcast::channel(64)
BusCapacity == 64

\* --------------------------------------------------------------- values
\* a key the cache does not hold (DashMap::get gives None)
Absent == [t |-> "Absent"]
\* Option<T>
NoneO == [some |-> FALSE]
Some(x) == [some |-> TRUE, v |-> x]
VString(s) == [t |-> "String", s |-> s]
VInt(n) == [t |-> "Int", n |-> n]
VBool(b) == [t |-> "Bool", b |-> b]
VEnum(n, defs) == [t |-> "Enum", n |-> n, defs |-> defs]
VPair(segs) == [t |-> "Pair", segs |-> segs]

Ok(v) == [ok |-> TRUE, v |-> v]
Err(e) == [ok |-> FALSE, err |-> e]

\* str::parse::<i64>() / parse::<u32>() on one segment of a split string
Digits == [z \in {"0", "1", "2"} |-> CASE z = "0" -> 0 [] z = "1" -> 1 [] z = "2" -> 2]
IsInt(seg) == Len(seg) = 1 /\ seg[1] \in DOMAIN Digits
IntOf(seg) == Digits[seg[1]]

\* str::split(d): the segments of s between the occurrences of d
RECURSIVE SplitAcc(_, _, _, _)
SplitAcc(s, d, cur, acc) ==
    IF s = <<>> THEN Append(acc, cur)
    ELSE IF Head(s) = d THEN SplitAcc(Tail(s), d, <<>>, Append(acc, cur))
    ELSE SplitAcc(Tail(s), d, Append(cur, Head(s)), acc)
Split(s, d) == SplitAcc(s, d, <<>>, <<>>)

\* (a variant that matches the lower-case word only)
NameEscapeMatch_CaseSensitive(key) == \E i \in 1..Len(key) : key[i] = "name"

\* NAME_ESCAPE_MATCHER = (?i)(name), matched against the key
NameLike == {"name", "defaultName", "Name"}
NameEscapeMatch(key) == \E i \in 1..Len(key) : key[i] \in NameLike

\* BOOL_MATCHER = bool:(.*), matched against the KEY (value.rs:49); capture
\* group 0 is the whole match, so it never equals "1" or "0".
BoolLike == {"bool:1", "bool:0"}
BoolMatch(key) == \E i \in 1..Len(key) : key[i] \in BoolLike
BoolCaptureValue(key) == FALSE

\* (a variant that takes the label for the whole option)
EnumOption_WholeLabel(f) ==
    LET vm == Split(f, "=") IN <<IntOf(vm[1]), f>>

\* One enum option <int>=<label>: vm[0].parse().unwrap(), vm[1]
EnumOptionPanics(f) ==
    LET vm == Split(f, "=") IN ~IsInt(vm[1]) \/ Len(vm) < 2
EnumOption(f) ==
    LET vm == Split(f, "=") IN <<IntOf(vm[1]), vm[2]>>

\* Value::decode
Decode(v, key) ==
    IF v.t # "String" THEN Ok(v)
    ELSE IF Len(v.s) = 0 THEN Ok(v)
    ELSE IF NameEscapeMatch(key) THEN Ok(v)
    ELSE IF BoolMatch(key) THEN Ok(VBool(BoolCaptureValue(key)))
    ELSE LET spliced == Split(v.s, ":") IN
         IF Len(spliced) = 0 THEN Ok(v)
         ELSE IF spliced[1] = <<"enum">> THEN
              IF Len(spliced) < 2 THEN Err("panic")
              ELSE IF ~IsInt(spliced[2]) THEN Err("ParseIntError")
              ELSE IF \E i \in 3..Len(spliced) : EnumOptionPanics(spliced[i])
                   THEN Err("panic")
              ELSE Ok(VEnum(IntOf(spliced[2]),
                            [i \in 1..(Len(spliced) - 2) |-> EnumOption(spliced[i + 2])]))
         ELSE Ok(VPair(spliced))

\* TryFrom<SerdeValue> for Value: the JSON scalar of a poll response entry
JNull == [j |-> "Null"]
JNumber(n) == [j |-> "Number", n |-> n]
JString(s) == [j |-> "String", s |-> s]
JBool(b) == [j |-> "Bool", b |-> b]
JArray == [j |-> "Array"]
TryFromSerde(val) ==
    CASE val.j = "Null" -> Err("NoValue")
      [] val.j = "Bool" -> Ok(VBool(val.b))
      [] val.j = "Number" -> Ok(VInt(val.n))
      [] val.j = "String" -> Ok(VString(val.s))
      [] OTHER -> Err("WTF")

\* Value::try_from(item.1)?.decode(&item.0)? of Device::poll
DecodeEntry(key, raw) ==
    LET v == TryFromSerde(raw) IN
    IF v.ok THEN Decode(v.v, key) ELSE v

\* ------------------------------------------------- value conversions
\* i64::to_string of the integers the model uses
IntStr(n) == CASE n = 0 -> "0" [] n = 1 -> "1" [] n = 2 -> "2" [] OTHER -> "n"

\* Vec<String>::join(":")
RECURSIVE Join(_, _)
Join(segs, d) ==
    IF segs = <<>> THEN <<>>
    ELSE IF Len(segs) = 1 THEN segs[1]
    ELSE segs[1] \o <<d>> \o Join(Tail(segs), d)

\* From<&Value> for String (Value::to_string)
ToStr(v) ==
    CASE v.t = "String" -> v.s
      [] v.t = "Int" -> <<IntStr(v.n)>>
      [] v.t = "Bool" -> IF v.b THEN <<"true">> ELSE <<"false">>
      [] v.t = "Enum" -> <<IntStr(v.n)>>
      [] v.t = "Pair" -> Join(v.segs, ":")

\* (a variant that writes every value as its text)
Serialize_Text(v) == JString(ToStr(v))

\* impl Serialize for Value: the JSON scalar a Value is written as
Serialize(v) ==
    CASE v.t = "String" -> JString(v.s)
      [] v.t = "Int" -> JNumber(v.n)
      [] v.t = "Bool" -> JString(<<"bool", ":", IF v.b THEN "1" ELSE "0">>)
      [] v.t = "Enum" -> JNumber(v.n)
      [] v.t = "Pair" -> JString(ToStr(v))

\* TryFrom<&Value> for u32 / i32 / bool / (i32, i32) and From<&Value> for
\* Option<String>: used by definitions.rs, defined in no file of src/.
ToU32(v) == IF v.t = "Int" /\ v.n >= 0 THEN Ok(v.n) ELSE Err("UnableToParseInt")
ToI32(v) == IF v.t = "Int" THEN Ok(v.n) ELSE Err("UnableToParseInt")
ToBool(v) ==
    CASE v.t = "Bool" -> Ok(v.b)
      [] v.t = "Int" -> Ok(v.n # 0)
      [] OTHER -> Err("WTF")
ToRange(v) ==
    IF v.t = "Pair" /\ Len(v.segs) = 2 /\ IsInt(v.segs[1]) /\ IsInt(v.segs[2])
    THEN Ok(<<IntOf(v.segs[1]), IntOf(v.segs[2])>>)
    ELSE Err("UnableToParseInt")
ToOptString(v) == Some(ToStr(v))

\* ------------------------------------------------------ banks, channels
\* ChannelBankType::try_from
BankTypeOf(seg) ==
    CASE seg = "ibank" -> Ok("Input")
      [] seg = "obank" -> Ok("Output")
      [] OTHER -> Err("NotAbleToParseBankType")

\* TrimValue::default()
DefaultTrimValue == [trim |-> 0, trim_range |-> <<0, 0>>]
MonoTrim(tv) == [kind |-> "Mono", tv |-> tv]
StereoTrim(tv) == [kind |-> "Stereo", tv |-> tv]

\* ExtChannel { index: i, ..Default::default() }
NewChannel(i) ==
    [index |-> i, default_name |-> NoneO, name |-> NoneO, src |-> NoneO,
     trim |-> NoneO, pad |-> NoneO, phase |-> NoneO, phantom_power |-> NoneO,
     connection |-> NoneO]

\* (a variant that replaces the Trim by one of the variant addressed)
SetTrimField_Replace(ch, kind, field, val) ==
    [ch EXCEPT !.trim = Some([kind |-> kind,
                              tv |-> [DefaultTrimValue EXCEPT ![field] = val]])]

\* ExtChannel::set_mono_trim / set_mono_trim_range / set_stereo_trim /
\* set_stereo_trim_range: get_or_insert, then write only if the variant fits
SetTrimField(ch, kind, field, val) ==
    LET cur == IF ch.trim.some THEN ch.trim.v
               ELSE [kind |-> kind, tv |-> DefaultTrimValue]
    IN  IF cur.kind = kind
        THEN [ch EXCEPT !.trim = Some([cur EXCEPT !.tv[field] = val])]
        ELSE [ch EXCEPT !.trim = Some(cur)]
set_mono_trim(ch, val) == SetTrimField(ch, "Mono", "trim", val)
set_mono_trim_range(ch, val) == SetTrimField(ch, "Mono", "trim_range", val)
set_stereo_trim(ch, val) == SetTrimField(ch, "Stereo", "trim", val)
set_stereo_trim_range(ch, val) == SetTrimField(ch, "Stereo", "trim_range", val)

\* r.map(f) for a Result
MapOk(r, F(_)) == IF r.ok THEN Ok(F(r.v)) ELSE r

\* ExtChannel::update (key is never empty here: the caller checks len >= 3)
ChannelUpdate(ch, key, value) ==
    LET k == key[1] IN
    CASE k = "defaultName" -> Ok([ch EXCEPT !.default_name = ToOptString(value)])
      [] k = "name" -> Ok([ch EXCEPT !.name = ToOptString(value)])
      [] k = "src" -> Ok([ch EXCEPT !.src = ToOptString(value)])
      [] k = "trim" -> MapOk(ToI32(value), LAMBDA x : set_mono_trim(ch, x))
      [] k = "trimRange" -> MapOk(ToRange(value), LAMBDA x : set_mono_trim_range(ch, x))
      [] k = "stereoTrim" -> MapOk(ToI32(value), LAMBDA x : set_stereo_trim(ch, x))
      [] k = "stereoTrimRange" ->
             MapOk(ToRange(value), LAMBDA x : set_stereo_trim_range(ch, x))
      [] k = "pad" -> MapOk(ToBool(value), LAMBDA x : [ch EXCEPT !.pad = Some(x)])
      [] k = "phase" -> MapOk(ToBool(value), LAMBDA x : [ch EXCEPT !.phase = Some(x)])
      [] k = "48V" -> MapOk(ToBool(value), LAMBDA x : [ch EXCEPT !.phase = Some(x)])
      [] k = "connection" ->
             MapOk(ToBool(value), LAMBDA x : [ch EXCEPT !.phase = Some(x)])
      [] OTHER -> Ok(ch)

\* (a variant that keeps neither the index nor the direction)
NewBank_Unkeyed(index, t) ==
    [index |-> 0, name |-> NoneO, t |-> "Input", smux |-> NoneO,
     num_channels |-> 0, max_channels |-> 0, user_channels |-> 0,
     currenty_active_channels |-> 0, channels |-> <<>>]

\* ChannelBank { index, t, ..Default::default() }
NewBank(index, t) ==
    [index |-> index, name |-> NoneO, t |-> t, smux |-> NoneO,
     num_channels |-> 0, max_channels |-> 0, user_channels |-> 0,
     currenty_active_channels |-> 0, channels |-> <<>>]

\* HashMap::entry(i).or_insert(d)
OrInsert(m, i, d) == IF i \in DOMAIN m THEN m ELSE (i :> d) @@ m
Put(m, i, x) == (i :> x) @@ m

\* ChannelBank::update; key[0] on an empty key is an index panic
BankUpdate(b, key, value) ==
    IF Len(key) = 0 THEN Err("panic")
    ELSE LET k == key[1] IN
    CASE k = "name" -> Ok([b EXCEPT !.name = Some(ToStr(value))])
      [] k = "numCh" -> MapOk(ToU32(value), LAMBDA x : [b EXCEPT !.num_channels = x])
      [] k = "maxCh" -> MapOk(ToU32(value), LAMBDA x : [b EXCEPT !.max_channels = x])
      [] k = "userCh" -> MapOk(ToU32(value), LAMBDA x : [b EXCEPT !.user_channels = x])
      [] k = "calcCh" ->
             MapOk(ToU32(value), LAMBDA x : [b EXCEPT !.currenty_active_channels = x])
      [] k = "smux" -> Ok([b EXCEPT !.smux = Some(ToStr(value))])
      [] k = "ch" ->
             IF Len(key) >= 3
             THEN IF ~IsInt(<<key[2]>>) THEN Err("ParseIntError")
                  ELSE LET i == IntOf(<<key[2]>>)
                           chans == OrInsert(b.channels, i, NewChannel(i))
                       IN  MapOk(ChannelUpdate(chans[i], SubSeq(key, 3, Len(key)), value),
                                 LAMBDA c : [b EXCEPT !.channels = Put(chans, i, c)])
             ELSE Err("NotEnoughDataInSegment")
      [] OTHER -> Ok(b)

\* uriparse::URIReference::try_from(key): "%" stands for a segment that is
\* no valid URI text
UriOk(key) == \A i \in 1..Len(key) : key[i] # "%"

\* extchannel::build, one cache item (the body of the for loop)
BuildItem(banks, prefix, key, value) ==
    IF ~UriOk(key) THEN Err("URIParseError")
    ELSE IF Len(key) > 2 /\ key[2] = prefix THEN
        IF ~IsInt(<<key[3]>>) THEN Err("ParseIntError")
        ELSE LET index == IntOf(<<key[3]>>)
                 t == BankTypeOf(prefix)
             IN  IF ~t.ok THEN t
                 ELSE LET bs == OrInsert(banks, index, NewBank(index, t.v)) IN
                      MapOk(BankUpdate(bs[index], SubSeq(key, 4, Len(key)), value),
                            LAMBDA b : Put(bs, index, b))
    ELSE Ok(banks)

\* extchannel::build over the cache items in the iteration order `order`
RECURSIVE BuildFrom(_, _, _, _)
BuildFrom(banks, prefix, items, order) ==
    IF order = <<>> THEN Ok(banks)
    ELSE LET r == BuildItem(banks, prefix, Head(order), items[Head(order)]) IN
         IF r.ok THEN BuildFrom(r.v, prefix, items, Tail(order)) ELSE r
build(prefix, items, order) == BuildFrom(<<>>, prefix, items, order)

\* ------------------------------------------------------------ requests
\* Request { key, val }: the key is text, "/" being one of its characters
Request(key, val) == [key |-> key, val |-> val]

\* (a variant that keeps the value of the first Request)
Add_KeepFirst(a, b) == [key |-> a.key \o <<"/">> \o b.key, val |-> a.val]

\* impl Add for Request: format!("{}/{}", self.key, other.key), other.val
Add(a, b) == [key |-> a.key \o <<"/">> \o b.key, val |-> b.val]

\* PathSeg for ChannelBankType and for ChannelBank: ext/<ibank|obank>/<index>
BankTypeSeg(t) == IF t = "Input" THEN "ibank" ELSE "obank"
BankSeg(b) == <<"ext", "/", BankTypeSeg(b.t), "/", IntStr(b.index)>>

\* ExtChannel::set_trim
set_trim(ch, trim) ==
    IF ch.trim.some
    THEN IF ch.trim.v.kind = "Mono"
         THEN Some(Request(<<IntStr(ch.index), "/", "trim">>, VInt(trim)))
         ELSE Some(Request(<<IntStr(ch.index), "/", "stereoTrim">>, VInt(trim)))
    ELSE NoneO

\* (a variant that puts the channel's part in front of the bank's)
add_optional_req_Reversed(l, r) == IF l.some THEN Some(Add(l.v, r)) ELSE NoneO

\* add_optional_req: Some(o) => Some(r + o)
add_optional_req(l, r) == IF l.some THEN Some(Add(r, l.v)) ELSE NoneO

\* ChannelBank::set_channel_trim
set_channel_trim(b, index, trim) ==
    IF index \in DOMAIN b.channels
    THEN add_optional_req(set_trim(b.channels[index], trim),
                          Request(BankSeg(b) \o <<"/", "ch">>, VBool(FALSE)))
    ELSE NoneO

\* ---------------------------------------------------------- the device
\* Keys of the datastore the model's device serves
KName == <<"ext", "ibank", "0", "name">>
KPad == <<"ext", "ibank", "0", "ch", "0", "pad">>
KOut == <<"ext", "obank", "x", "numCh">>
KOutName == <<"ext", "obank", "0", "name">>
\* the other entries of channel 0 of input bank 0, and output bank 1
K48V == <<"ext", "ibank", "0", "ch", "0", "48V">>
KTrim == <<"ext", "ibank", "0", "ch", "0", "trim">>
KTrimRange == <<"ext", "ibank", "0", "ch", "0", "trimRange">>
KStereoTrim == <<"ext", "ibank", "0", "ch", "0", "stereoTrim">>
KStereoTrimRange == <<"ext", "ibank", "0", "ch", "0", "stereoTrimRange">>
KOut1Name == <<"ext", "obank", "1", "name">>
KOut1StereoTrim == <<"ext", "obank", "1", "ch", "0", "stereoTrim">>
KSrc == <<"ext", "ibank", "0", "ch", "0", "src">>
KDefaultName == <<"ext", "ibank", "0", "ch", "0", "defaultName">>
\* paths of input bank 0 that the update routines cannot take (no segment
\* after the channel index, a channel index that is no integer) or do not
\* know (an unknown attribute of channel 1, of the bank)
KChShort == <<"ext", "ibank", "0", "ch", "0">>
KChBadIndex == <<"ext", "ibank", "0", "ch", "x", "pad">>
KChUnknown == <<"ext", "ibank", "0", "ch", "1", "gain">>
KBankUnknown == <<"ext", "ibank", "0", "gain">>
Keys == {KName, KPad, KOut, KOutName, K48V, KTrim, KTrimRange,
         KStereoTrim, KStereoTrimRange, KOut1Name, KSrc, KDefaultName,
         KChShort, KChBadIndex, KChUnknown, KBankUnknown, KOut1StereoTrim}

\* Bodies of GET responses: JSON objects, key -> scalar
BodyName == KName :> JString(<<"Mic">>)
BodyPad == KPad :> JNumber(1)
BodyMixed == (KPad :> JString(<<"enum", ":", "x">>)) @@ (KName :> JString(<<"Line">>))
BodyOut == KOut :> JNumber(2)
BodyEmpty == <<>>
BodySeed == (KName :> JString(<<"Mic">>)) @@ (KOutName :> JString(<<"Main">>))
BodyOutName == KOutName :> JString(<<"Aux">>)
BodyBank0 == (KName :> JString(<<"Line">>)) @@ (KPad :> JNumber(1))
Body48V == K48V :> JNumber(1)
BodyTrim == KTrim :> JNumber(1)
BodyTrimRange == KTrimRange :> JString(<<"1", ":", "2">>)
BodyStereoTrim == KStereoTrim :> JNumber(2)
BodyOut1Name == KOut1Name :> JString(<<"Aux">>)

\* Responses to GET <url>?client=<id>: a transport failure, or a status
\* line with an optional ETag header and a body (a JSON object, or text
\* that is no JSON object)
NetErr == [net |-> FALSE]
Http(status, etag, json, body) ==
    [net |-> TRUE, status |-> status, etag |-> etag, json |-> json, body |-> body]
PollResponses ==
    { NetErr,
      Http(200, "e1", TRUE, BodyName),
      Http(200, "e2", TRUE, BodyMixed),
      Http(200, "none", TRUE, BodyOut),
      Http(200, "e1", TRUE, BodyPad),
      Http(304, "none", TRUE, BodyPad),
      Http(500, "none", FALSE, <<>>) }

\* Responses to GET /apiversion (Device::check)
CheckResponses == {"ok", "status_error", "net_error"}

\* Batches given to set_keys (two paths, and one path twice), and the
\* responses to PATCH
Batches ==
    { << <<KPad, VBool(TRUE)>> >>,
      << <<KName, VString(<<"Mic">>)>>, <<KPad, VBool(FALSE)>> >>,
      << <<KPad, VInt(1)>>, <<KPad, VInt(0)>> >> }
PatchResponse(status, text_ok) == [net |-> TRUE, status |-> status, text_ok |-> text_ok]
PatchResponses ==
    { NetErr, PatchResponse(200, TRUE), PatchResponse(204, TRUE),
      PatchResponse(500, TRUE), PatchResponse(404, FALSE) }
\* the body text of a PATCH response
BodyText(status) == <<"body", IntStr(status)>>

Gens == 1..MaxOps
SubIds == 1..MaxOps

VARIABLES
    connected,     \* Device.connected
    conn_cancel,   \* Device.conn_cancel: 0 (None) or the connection whose Sender it holds
    updates,       \* Device.updates: 0 (None) or the connection whose bus Sender it holds
    input_banks,   \* Device.input_banks: 0 (None) or the connection whose Arc it holds
    output_banks,  \* Device.output_banks: likewise
    cache,         \* Device.cache, shared with every poll task
    banks,         \* the bank maps behind the Arcs, per connection
    poller,        \* the task spawned at device.rs:282, per connection
    bus,           \* the broadcast channel of device.rs:278, per connection
    map_update,    \* its first Receiver (device.rs:278), later the projector task's
    subs,          \* the Receivers handed out by updates()
    caller,        \* the task that owns the Device: where it is in connect / set_keys
    device,        \* the remote device: the responses it gives
    used           \* how much of the bounds the run has used, and what has happened

vars == <<connected, conn_cancel, updates, input_banks, output_banks, cache, banks,
          poller, bus, map_update, subs, caller, device, used>>

\* Update::External / Update::Internal; `by` records the emitting component
Update(tag, key, val, by) == [tag |-> tag, key |-> key, val |-> val, by |-> by]
\* (a variant of PollUpdate with the tag of the write path)
PollUpdate_Internal(key, val) == Update("Internal", key, val, "poll")

\* Update::External(item.0, v) of poll, Update::Internal(key, val) of set_keys
PollUpdate(key, val) == Update("External", key, val, "poll")
WriteUpdate(key, val) == Update("Internal", key, val, "write")

NoPoller ==
    [pc |-> "none", first |-> TRUE, etag |-> "none", sent |-> "none", status |-> 0,
     tag |-> "none", pq |-> <<>>, cur |-> NoneO, cached |-> NoneO]
NoSub ==
    [st |-> "none", gen |-> 0, next |-> 1, last |-> "none",
     at |-> 0, got |-> <<>>, lagged |-> FALSE]
NoRet == [op |-> "none", res |-> Ok("unit")]
NoResponse == [net |-> FALSE]
IdleCaller ==
    [pc |-> "idle", gen |-> 0, batch |-> <<>>, body |-> <<>>, i |-> 1, ret |-> NoRet,
     resp |-> NoResponse, at |-> 0, ins |-> 0, raced |-> {}]

\* Device::new
NewDevice ==
    /\ connected = FALSE
    /\ conn_cancel = 0
    /\ updates = 0
    /\ input_banks = 0
    /\ output_banks = 0
    /\ cache = [k \in Keys |-> Absent]
    /\ banks = [g \in Gens |-> [ibank |-> NoneO, obank |-> NoneO]]
    /\ poller = [g \in Gens |-> NoPoller]
    /\ bus = [g \in Gens |-> <<>>]
    /\ map_update = [g \in Gens |-> [st |-> "none", next |-> 1]]
    /\ subs = [s \in SubIds |-> NoSub]
    /\ caller = IdleCaller

Init ==
    /\ NewDevice
    /\ device = [gets |-> PollResponses, checks |-> CheckResponses,
                 patches |-> PatchResponses]
    /\ used = [ops |-> 0, max |-> MaxOps, connects |-> 0, connected_ok |-> 0]

\* ------------------------------------------------------- the update bus
\* Live Receivers / Senders of connection g's broadcast channel
Receivers(g) ==
    (IF map_update[g].st \in {"held", "task"} THEN 1 ELSE 0)
    + Cardinality({s \in SubIds : subs[s].st = "live" /\ subs[s].gen = g})
Senders(g) ==
    (IF updates = g THEN 1 ELSE 0)
    + (IF poller[g].pc \notin {"none", "dead"} THEN 1 ELSE 0)

\* broadcast::Sender::send: an error when no Receiver is alive, else the
\* value is queued; it never waits for a Receiver
SendOk(g) == Receivers(g) > 0
\* (a variant that queues the value in front of the older ones)
BusSend_Front(log, u) == <<u>> \o log

BusSend(log, u) == Append(log, u)

\* (a variant whose Receivers never lag: an overwritten value is still read)
RecvResult_NoLag(log, next, senders) ==
    IF next <= Len(log) THEN [r |-> "Ok", next |-> next + 1]
    ELSE IF senders = 0 THEN [r |-> "Closed", next |-> next]
    ELSE [r |-> "Pending", next |-> next]

\* broadcast::Receiver::recv for a Receiver whose next position is `next`:
\* the channel keeps the BusCapacity most recent values
RecvResult(log, next, senders) ==
    IF next <= Len(log) - BusCapacity
    THEN [r |-> "Lagged", next |-> Len(log) - BusCapacity + 1]
    ELSE IF next <= Len(log) THEN [r |-> "Ok", next |-> next + 1]
    ELSE IF senders = 0 THEN [r |-> "Closed", next |-> next]
    ELSE [r |-> "Pending", next |-> next]

\* (a variant that starts the new Receiver at the oldest value)
SubscribeAt_Oldest(log) == 1

\* broadcast::Sender::subscribe: the new Receiver starts at the tail
SubscribeAt(log) == Len(log) + 1

\* HashMap / DashMap iteration: any order of the keys
Orders(S) ==
    {f \in [1..Cardinality(S) -> S] : \A i, j \in 1..Cardinality(S) : f[i] = f[j] => i = j}

\* ------------------------------------------------------ the poll task
\* The end of one Device::poll call inside the task of device.rs:282-305:
\* the first result goes to cached_tx and the loop starts whatever it was;
\* in the loop an Err ends the task
EndCycle(p, res) ==
    LET q == [p EXCEPT !.pq = <<>>, !.cur = NoneO] IN
    IF p.first THEN [q EXCEPT !.pc = "idle", !.first = FALSE, !.cached = Some(res)]
    ELSE IF res.ok THEN [q EXCEPT !.pc = "idle"]
    ELSE [q EXCEPT !.pc = "dead"]

\* A panic inside poll unwinds the task; cached_tx is dropped unsent
Panicked(p) ==
    LET q == [p EXCEPT !.pq = <<>>, !.cur = NoneO, !.pc = "dead"] IN
    IF p.first THEN [q EXCEPT !.first = FALSE, !.cached = Some(Err("OneShotRecvError"))]
    ELSE q

\* (a variant that tests for the wrong status)
IsNotModified_204(status) == status = 204

\* if q.status() == 304 { return Ok(()) }
IsNotModified(status) == status = 304

\* (a variant that never sends the header)
IfNoneMatch_Never(p) == "none"

\* match &etag { Some(v) => c.header("If-None-Match", v), None => c }
IfNoneMatch(p) == p.etag

\* (a variant that keeps the stored validator when the response has none)
StoreValidator_KeepIfAbsent(stored, header) ==
    IF header = "none" THEN stored ELSE header

\* *etag = q.headers().get(ETAG).cloned(): the header, or None without one
StoreValidator(stored, header) == header

\* poll, device.rs:402-407: the request goes out, with the stored etag
PollSend(g) ==
    /\ poller[g].pc = "idle"
    /\ used.ops < used.max
    /\ poller' = [poller EXCEPT ![g].pc = "wait", ![g].sent = IfNoneMatch(poller[g]),
                                ![g].status = 0, ![g].tag = "none"]
    /\ used' = [used EXCEPT !.ops = @ + 1]
    /\ UNCHANGED <<connected, conn_cancel, updates, input_banks, output_banks, cache,
                   banks, bus, map_update, subs, caller, device>>

\* poll, device.rs:405-418: the response arrives
PollRespond(g) ==
    /\ poller[g].pc = "wait"
    /\ \E r \in device.gets :
         IF ~r.net THEN poller' = [poller EXCEPT ![g] = EndCycle(@, Err("RequestError"))]
         ELSE LET p == [poller[g] EXCEPT !.status = r.status, !.tag = r.etag] IN
              IF IsNotModified(r.status) THEN poller' = [poller EXCEPT ![g] = EndCycle(p, Ok("unit"))]
              ELSE LET p2 == [p EXCEPT !.etag = StoreValidator(p.etag, r.etag)] IN
                   IF ~r.json
                   THEN poller' = [poller EXCEPT ![g] = EndCycle(p2, Err("RequestError"))]
                   ELSE \E o \in Orders(DOMAIN r.body) :
                          poller' = [poller EXCEPT ![g] =
                              IF o = <<>> THEN EndCycle(p2, Ok("unit"))
                              ELSE [p2 EXCEPT !.pc = "insert",
                                       !.pq = [i \in 1..Len(o) |-> <<o[i], r.body[o[i]]>>]]]
    /\ UNCHANGED <<connected, conn_cancel, updates, input_banks, output_banks, cache,
                   banks, bus, map_update, subs, caller, used, device>>

\* poll, device.rs:423-424: decode the next entry and insert it
PollInsert(g) ==
    /\ poller[g].pc = "insert"
    /\ LET item == Head(poller[g].pq)
           d == DecodeEntry(item[1], item[2])
       IN  IF d.ok
           THEN /\ cache' = [cache EXCEPT ![item[1]] = d.v]
                /\ poller' = [poller EXCEPT ![g].pc = "emit",
                                 ![g].cur = Some(PollUpdate(item[1], d.v))]
                /\ caller' = IF caller.pc \in {"w_wait", "w_insert", "w_emit"}
                              THEN [caller EXCEPT !.raced = @ \cup {item[1]}]
                              ELSE caller
           ELSE /\ poller' = [poller EXCEPT ![g] =
                                 IF d.err = "panic" THEN Panicked(@) ELSE EndCycle(@, d)]
                /\ UNCHANGED <<cache, caller>>
    /\ UNCHANGED <<connected, conn_cancel, updates, input_banks, output_banks,
                   banks, bus, map_update, subs, used, device>>

\* poll, device.rs:425: let _ = updates.send(Update::External(..))
PollEmit(g) ==
    /\ poller[g].pc = "emit"
    /\ bus' = IF SendOk(g) THEN [bus EXCEPT ![g] = BusSend(@, poller[g].cur.v)] ELSE bus
    /\ LET rest == Tail(poller[g].pq) IN
       poller' = [poller EXCEPT ![g] =
                     IF rest = <<>> THEN EndCycle(@, Ok("unit"))
                     ELSE [@ EXCEPT !.pc = "insert", !.pq = rest, !.cur = NoneO]]
    /\ UNCHANGED <<connected, conn_cancel, updates, input_banks, output_banks, cache,
                   banks, map_update, subs, caller, used, device>>

\* (a variant in which the cancel channel never fires)
CancelRaised_Never(g) == FALSE

\* The Sender of connection g's cancel channel is gone: rx.recv() is ready
CancelRaised(g) == conn_cancel # g

\* select!, device.rs:299-302: the cancel branch wins; a request in flight
\* is dropped, the synchronous part of poll is never interrupted
PollCancel(g) ==
    /\ poller[g].pc \in {"idle", "wait"}
    /\ ~poller[g].first
    /\ CancelRaised(g)
    /\ poller' = [poller EXCEPT ![g].pc = "dead"]
    /\ UNCHANGED <<connected, conn_cancel, updates, input_banks, output_banks, cache,
                   banks, bus, map_update, subs, caller, used, device>>

\* ---------------------------------------------------- caller operations
\* An operation of the Device returns `res` to the caller
Return(op, res) == [IdleCaller EXCEPT !.ret = [op |-> op, res |-> res]]

\* Device::check and connect up to the await of cached_rx
\* (device.rs:265-307, 377-388)
ConnectCheck ==
    /\ caller.pc = "idle"
    /\ used.ops < used.max
    /\ \E r \in device.checks :
         IF r # "ok"
         THEN /\ caller' = Return("connect",
                      Err(IF r = "net_error" THEN "RequestError" ELSE "CouldNotConnect"))
              /\ UNCHANGED <<connected, conn_cancel, updates, poller, map_update, used>>
         ELSE LET g == used.connects + 1 IN
              /\ conn_cancel' = g
              /\ updates' = g
              /\ map_update' = [map_update EXCEPT ![g] = [st |-> "held", next |-> 1]]
              /\ poller' = [poller EXCEPT ![g] = [NoPoller EXCEPT !.pc = "idle"]]
              /\ connected' = TRUE
              /\ caller' = [IdleCaller EXCEPT !.pc = "await_cached", !.gen = g,
                                              !.ret = caller.ret]
              /\ used' = [used EXCEPT !.connects = g, !.ops = @ + 1]
    /\ UNCHANGED <<input_banks, output_banks, cache, banks, bus, subs, device>>

\* The keys the cache holds (DashMap::iter)
Present == {k \in Keys : cache[k] # Absent}

\* (a variant that builds the model whatever the first cycle returned)
SeedReady_Always(first) == TRUE

\* match cached_rx.await? { Ok(_) => build .., Err(e) => return Err(e) }
SeedReady(first) == first.v.ok

\* connect from the result of the first poll on (device.rs:309-359)
ConnectBuild ==
    /\ caller.pc = "await_cached"
    /\ LET g == caller.gen
           first == poller[g].cached
       IN
       /\ first.some
       /\ IF ~SeedReady(first)
          THEN /\ caller' = Return("connect", first.v)
               /\ map_update' = [map_update EXCEPT ![g].st = "dropped"]
               /\ UNCHANGED <<input_banks, output_banks, banks, used>>
          ELSE \E oi \in Orders(Present), oo \in Orders(Present) :
               LET bi == build("ibank", cache, oi)
                   bo == build("obank", cache, oo)
               IN  IF ~bi.ok
                   THEN /\ caller' = Return("connect", bi)
                        /\ map_update' = [map_update EXCEPT ![g].st = "dropped"]
                        /\ UNCHANGED <<input_banks, output_banks, banks, used>>
                   ELSE IF ~bo.ok
                   THEN /\ input_banks' = g
                        /\ banks' = [banks EXCEPT ![g].ibank = Some(bi.v)]
                        /\ caller' = Return("connect", bo)
                        /\ map_update' = [map_update EXCEPT ![g].st = "dropped"]
                        /\ UNCHANGED <<output_banks, used>>
                   ELSE /\ input_banks' = g
                        /\ output_banks' = g
                        /\ banks' = [banks EXCEPT ![g] =
                                        [ibank |-> Some(bi.v), obank |-> Some(bo.v)]]
                        /\ map_update' = [map_update EXCEPT ![g].st = "task"]
                        /\ caller' = Return("connect", Ok("unit"))
                        /\ used' = [used EXCEPT !.connected_ok = @ + 1]
    /\ UNCHANGED <<connected, conn_cancel, updates, cache, poller, bus, subs, device>>

\* Device::input_banks / output_banks / updates, as the Device stands
input_banks_result ==
    IF input_banks # 0 THEN Ok(input_banks) ELSE Err("ChannelBanksNotInitalized")
output_banks_result ==
    IF output_banks # 0 THEN Ok(output_banks) ELSE Err("ChannelBanksNotInitalized")
updates_result ==
    IF connected
    THEN IF updates # 0 THEN Ok(updates) ELSE Err("NotConnected")
    ELSE Err("NotConnected")

InputBanks ==
    /\ caller.pc = "idle"
    /\ caller' = Return("input_banks", input_banks_result)
    /\ UNCHANGED <<connected, conn_cancel, updates, input_banks, output_banks, cache,
                   banks, poller, bus, map_update, subs, used, device>>

OutputBanks ==
    /\ caller.pc = "idle"
    /\ caller' = Return("output_banks", output_banks_result)
    /\ UNCHANGED <<connected, conn_cancel, updates, input_banks, output_banks, cache,
                   banks, poller, bus, map_update, subs, used, device>>

\* Device::updates: on Ok a new Receiver, subscribed at the tail of the bus
Updates ==
    /\ caller.pc = "idle"
    /\ LET r == updates_result IN
       IF r.ok
       THEN \E s \in SubIds :
              /\ used.ops < used.max
              /\ subs[s].st = "none"
              /\ \A z \in 1..(s - 1) : subs[z].st # "none"
              /\ subs' = [subs EXCEPT ![s] =
                     [NoSub EXCEPT !.st = "live", !.gen = r.v,
                                   !.next = SubscribeAt(bus[r.v]), !.at = Len(bus[r.v])]]
              /\ caller' = Return("updates", r)
              /\ used' = [used EXCEPT !.ops = @ + 1]
       ELSE /\ caller' = Return("updates", r)
            /\ UNCHANGED <<subs, used>>
    /\ UNCHANGED <<connected, conn_cancel, updates, input_banks, output_banks, cache,
                   banks, poller, bus, map_update, device>>

\* A subscriber calls recv() on its Receiver and gets a value or a signal
SubRecv(s) ==
    /\ subs[s].st = "live"
    /\ LET g == subs[s].gen
           rr == RecvResult(bus[g], subs[s].next, Senders(g))
       IN  /\ rr.r # "Pending"
           /\ subs[s].last # "Closed"
           /\ subs' = [subs EXCEPT ![s].next = rr.next, ![s].last = rr.r,
                          ![s].lagged = @ \/ rr.r = "Lagged",
                          ![s].got = IF rr.r = "Ok" THEN Append(@, bus[g][subs[s].next])
                                     ELSE @]
    /\ UNCHANGED <<connected, conn_cancel, updates, input_banks, output_banks, cache,
                   banks, poller, bus, map_update, caller, used, device>>

\* A subscriber drops its Receiver
SubDrop(s) ==
    /\ subs[s].st = "live"
    /\ subs' = [subs EXCEPT ![s].st = "dropped"]
    /\ UNCHANGED <<connected, conn_cancel, updates, input_banks, output_banks, cache,
                   banks, poller, bus, map_update, caller, used, device>>

\* --------------------------------------------------- the projector task
\* KeyType::convert_from_str
convert_from_str(key) ==
    IF ~UriOk(key) THEN Err("URIParseError")
    ELSE IF Len(key) > 2 THEN
        CASE key[1] = "ext" ->
               IF ~IsInt(<<key[3]>>) THEN Err("ParseIntError")
               ELSE LET t == BankTypeOf(key[2]) IN
                    IF ~t.ok THEN t
                    ELSE Ok([kt |-> IF t.v = "Input" THEN "InputBank" ELSE "OutputBank",
                             index |-> IntOf(<<key[3]>>)])
          [] key[1] = "avb" -> Ok([kt |-> "AVB", index |-> 0])
          [] key[1] = "mix" -> Ok([kt |-> "Mixer", index |-> 0])
          [] OTHER -> Ok([kt |-> "NotImplemented", index |-> 0])
    ELSE Err("KeyParseError")

\* The maps the projector task of connection g updates (device.rs:318-319):
\* both are clones of self.input_banks
update_input_bank(g) == "ibank"
update_output_bank(g) == "ibank"

\* The body of the projector's loop for one Update (device.rs:332-355):
\* the bank maps of connection g afterwards, or the panic of unwrap()
ProjApply(bs, g, u) ==
    LET c == convert_from_str(u.key) IN
    IF ~c.ok \/ c.v.kt \notin {"InputBank", "OutputBank"} THEN Ok(bs)
    ELSE LET f == IF c.v.kt = "InputBank" THEN update_input_bank(g)
                  ELSE update_output_bank(g)
             m == bs[f].v
         IN  IF c.v.index \notin DOMAIN m THEN Ok(bs)
             ELSE LET r == BankUpdate(m[c.v.index], SubSeq(u.key, 4, Len(u.key)), u.val)
                  IN  IF r.ok THEN Ok([bs EXCEPT ![f] = Some(Put(m, c.v.index, r.v))])
                      ELSE Err("panic")

\* One turn of the projector's loop (device.rs:322-357)
ProjRecv(g) ==
    /\ map_update[g].st = "task"
    /\ LET rr == RecvResult(bus[g], map_update[g].next, Senders(g)) IN
       /\ rr.r # "Pending"
       /\ IF rr.r = "Closed"
          THEN /\ map_update' = [map_update EXCEPT ![g].st = "dropped"]
               /\ banks' = banks
          ELSE IF rr.r = "Lagged"
          THEN /\ map_update' = [map_update EXCEPT ![g].next = rr.next]
               /\ banks' = banks
          ELSE LET a == ProjApply(banks[g], g, bus[g][map_update[g].next]) IN
               IF a.ok
               THEN /\ banks' = [banks EXCEPT ![g] = a.v]
                    /\ map_update' = [map_update EXCEPT ![g].next = rr.next]
               ELSE /\ banks' = banks
                    /\ map_update' = [map_update EXCEPT ![g].st = "dropped"]
    /\ UNCHANGED <<connected, conn_cancel, updates, input_banks, output_banks, cache,
                   poller, bus, subs, caller, used, device>>

\* ------------------------------------------------------ the Device ends
\* The owner drops the Device, or the connect future it is waiting in and
\* then the Device: the cancel Sender (device.rs:268), the bus Sender
\* (device.rs:279) and the Arcs of the model go, and with a connect future
\* the Receiver it holds (device.rs:278)
DropDevice ==
    /\ caller.pc \in {"idle", "await_cached"}
    /\ conn_cancel # 0
    /\ conn_cancel' = 0
    /\ updates' = 0
    /\ input_banks' = 0
    /\ output_banks' = 0
    /\ connected' = FALSE
    /\ map_update' = IF caller.pc = "await_cached"
                      THEN [map_update EXCEPT ![caller.gen].st = "dropped"]
                      ELSE map_update
    /\ caller' = [IdleCaller EXCEPT !.pc = "gone", !.ret = caller.ret]
    /\ UNCHANGED <<cache, banks, poller, bus, subs, used, device>>

\* ------------------------------------------------------- the write path
\* set_keys, device.rs:437-443: the HashMap m of the batch (a later entry
\* for a key replaces an earlier one), as serde_json writes it
PatchBody(b) ==
    LET ks == {b[i][1] : i \in 1..Len(b)} IN
    [k \in ks |->
        LET I == {i \in 1..Len(b) : b[i][1] = k}
            m == CHOOSE i \in I : \A j \in I : j <= i
        IN  Serialize(b[m][2])]

\* set_keys(b) up to the await of send()
SetKeysCall(b) ==
    caller' = [IdleCaller EXCEPT !.pc = "w_wait", !.batch = b, !.body = PatchBody(b),
                                 !.ret = caller.ret,
                                 !.at = IF updates = 0 THEN 0 ELSE Len(bus[updates])]

\* set / set_keys, device.rs:436-450: the PATCH goes out
SetKeysSend ==
    /\ caller.pc = "idle"
    /\ used.ops < used.max
    /\ \E b \in Batches : SetKeysCall(b)
    /\ used' = [used EXCEPT !.ops = @ + 1]
    /\ UNCHANGED <<connected, conn_cancel, updates, input_banks, output_banks, cache,
                   banks, poller, bus, map_update, subs, device>>

\* The owner reads a value of the cache (get_value, device.rs:470-472) and
\* writes it back under its key (set, device.rs:431-433)
SetCached ==
    /\ caller.pc = "idle"
    /\ used.ops < used.max
    /\ \E k \in Present : SetKeysCall(<< <<k, cache[k]>> >>)
    /\ used' = [used EXCEPT !.ops = @ + 1]
    /\ UNCHANGED <<connected, conn_cancel, updates, input_banks, output_banks, cache,
                   banks, poller, bus, map_update, subs, device>>

\* The Requests the owner composes
RequestPool ==
    { Request(<<"ext", "/", "ibank", "/", "0">>, VBool(FALSE)),
      Request(<<"ch">>, VInt(1)),
      Request(<<"0", "/", "trim">>, VInt(2)),
      Request(<<>>, VString(<<"Mic">>)) }

\* The owner takes a bank from input_banks() or output_banks() and calls
\* set_channel_trim on it
SetChannelTrim ==
    /\ caller.pc = "idle"
    /\ \E dir \in {"ibank", "obank"} :
         LET g == IF dir = "ibank" THEN input_banks ELSE output_banks IN
         /\ g # 0
         /\ \E i \in DOMAIN banks[g][dir].v, ch \in {0, 1}, t \in {1, 2} :
              caller' = Return("set_channel_trim",
                               Ok([dir |-> dir, bank |-> i, ch |-> ch, t |-> t,
                                   req |-> set_channel_trim(banks[g][dir].v[i], ch, t)]))
    /\ UNCHANGED <<connected, conn_cancel, updates, input_banks, output_banks, cache,
                   banks, poller, bus, map_update, subs, used, device>>

\* The owner composes three Requests, from the left and from the right
ComposeRequests ==
    /\ caller.pc = "idle"
    /\ \E a, b, c \in RequestPool :
         caller' = Return("add",
                          Ok([a |-> a, b |-> b, c |-> c, ab |-> Add(a, b),
                              left |-> Add(Add(a, b), c),
                              right |-> Add(a, Add(b, c))]))
    /\ UNCHANGED <<connected, conn_cancel, updates, input_banks, output_banks, cache,
                   banks, poller, bus, map_update, subs, used, device>>

\* DeviceError::BadResponse(status, text)
BadResponse(status, text) ==
    [ok |-> FALSE, err |-> "BadResponse", status |-> status, body |-> text]

\* (a variant that takes every status below 500 for a success)
IsWriteSuccess_Below500(status) == status < 500

\* match res.status() { StatusCode::OK | StatusCode::NO_CONTENT => .. }
IsWriteSuccess(status) == status \in {200, 204}

\* The call returns (the bookkeeping of the call stays readable)
SetKeysReturn(c, res) == [c EXCEPT !.pc = "idle", !.ret = [op |-> "set_keys", res |-> res]]

\* set_keys, device.rs:450-467: the response arrives
SetKeysRespond ==
    /\ caller.pc = "w_wait"
    /\ \E r \in device.patches :
         LET c == [caller EXCEPT !.resp = r] IN
         caller' =
           IF ~r.net THEN SetKeysReturn(c, Err("RequestError"))
           ELSE IF IsWriteSuccess(r.status)
           THEN IF c.batch = <<>> THEN SetKeysReturn(c, Ok("unit"))
                ELSE [c EXCEPT !.pc = "w_insert", !.i = 1]
           ELSE IF r.text_ok
           THEN SetKeysReturn(c, BadResponse(r.status, BodyText(r.status)))
           ELSE SetKeysReturn(c, Err("RequestError"))
    /\ UNCHANGED <<connected, conn_cancel, updates, input_banks, output_banks, cache,
                   banks, poller, bus, map_update, subs, used, device>>

\* (a variant that returns from inside the loop, after the first entry)
SetKeysNext_ReturnEarly(c) == SetKeysReturn(c, Ok("unit"))

\* The loop of device.rs:455-460 moves to the next entry or the call ends
SetKeysNext(c) ==
    IF c.i = Len(c.batch) THEN SetKeysReturn(c, Ok("unit"))
    ELSE [c EXCEPT !.pc = "w_insert", !.i = @ + 1]

\* set_keys, device.rs:456-457: self.cache.insert(key, val)
SetKeysInsert ==
    /\ caller.pc = "w_insert"
    /\ LET e == caller.batch[caller.i]
           c == [caller EXCEPT !.ins = @ + 1]
       IN  /\ cache' = [cache EXCEPT ![e[1]] = e[2]]
           /\ caller' = IF updates = 0 THEN SetKeysNext(c) ELSE [c EXCEPT !.pc = "w_emit"]
    /\ UNCHANGED <<connected, conn_cancel, updates, input_banks, output_banks,
                   banks, poller, bus, map_update, subs, used, device>>

\* set_keys, device.rs:458: upd.send(Update::Internal(..))?
SetKeysEmit ==
    /\ caller.pc = "w_emit"
    /\ LET e == caller.batch[caller.i] IN
       IF SendOk(updates)
       THEN /\ bus' = [bus EXCEPT ![updates] =
                         BusSend(@, WriteUpdate(e[1], e[2]))]
            /\ caller' = SetKeysNext(caller)
       ELSE /\ bus' = bus
            /\ caller' = SetKeysReturn(caller, Err("BroadcastError"))
    /\ UNCHANGED <<connected, conn_cancel, updates, input_banks, output_banks, cache,
                   banks, poller, map_update, subs, used, device>>

\* ------------------------------------------------------ specification
Next ==
    \/ ConnectCheck
    \/ ConnectBuild
    \/ InputBanks
    \/ OutputBanks
    \/ Updates
    \/ SetKeysSend
    \/ SetKeysRespond
    \/ SetKeysInsert
    \/ SetKeysEmit
    \/ \E g \in Gens : PollSend(g)
    \/ \E g \in Gens : PollRespond(g)
    \/ \E g \in Gens : PollInsert(g)
    \/ \E g \in Gens : PollEmit(g)
    \/ \E g \in Gens : PollCancel(g)
    \/ \E g \in Gens : ProjRecv(g)
    \/ \E s \in SubIds : SubRecv(s)
    \/ \E s \in SubIds : SubDrop(s)

Spec == Init /\ [][Next]_vars

\* A run that outruns the bus: a device whose every poll response carries
\* one entry and that accepts every write, a caller that connects once,
\* subscribes once, right after connect, lets the tasks run and writes once
\* when the bus has filled; the subscriber stops consuming after its first
\* Update at the latest and comes back when the bus has overflowed, until
\* it is told that it lagged
InitLag ==
    /\ NewDevice
    /\ device = [gets |-> {Http(200, "e1", TRUE, BodyName)}, checks |-> {"ok"},
                 patches |-> {PatchResponse(200, TRUE)}]
    /\ used = [ops |-> 0, max |-> MaxLagOps, connects |-> 0, connected_ok |-> 0]

NextLag ==
    \/ (used.connects = 0 /\ ConnectCheck)
    \/ ConnectBuild
    \/ (subs[1].st = "none" /\ Len(bus[1]) <= 1 /\ Updates)
    \/ (Len(bus[1]) = BusCapacity /\ caller.ret.op # "set_keys" /\ SetKeysSend)
    \/ SetKeysRespond
    \/ SetKeysInsert
    \/ SetKeysEmit
    \/ PollSend(1)
    \/ PollRespond(1)
    \/ PollInsert(1)
    \/ PollEmit(1)
    \/ ProjRecv(1)
    \/ (/\ subs[1].got = <<>> \/ Len(bus[1]) > BusCapacity
        /\ ~subs[1].lagged
        /\ SubRecv(1))

SpecLag == InitLag /\ [][NextLag]_vars

\* A run that follows the projector task: one connection to a device whose
\* datastore is empty or holds the names of input bank 0 and output bank 0
\* at first, and that later reports entries of input bank 0 and the name
\* of output bank 0
InitProj ==
    /\ NewDevice
    /\ device = [gets |-> {Http(200, "e1", TRUE, BodyEmpty),
                           Http(200, "e1", TRUE, BodySeed),
                           Http(200, "e2", TRUE, BodyOutName),
                           Http(200, "e2", TRUE, BodyBank0)},
                 checks |-> {"ok"}, patches |-> {}]
    /\ used = [ops |-> 0, max |-> MaxProjOps, connects |-> 0, connected_ok |-> 0]

NextProj ==
    \/ (used.connects = 0 /\ ConnectCheck)
    \/ ConnectBuild
    \/ PollSend(1)
    \/ PollRespond(1)
    \/ PollInsert(1)
    \/ PollEmit(1)
    \/ ProjRecv(1)

SpecProj == InitProj /\ [][NextProj]_vars

\* A run that ends with the Device dropped: a device that answers the
\* health check, and answers a poll request with an error, with data or
\* with 304 when it answers at all. The tasks run when they can (a spawned
\* task is scheduled; select! takes a branch that is ready); nothing makes
\* the device answer.
InitCancel ==
    /\ NewDevice
    /\ device = [gets |-> {NetErr, Http(200, "e1", TRUE, BodyName),
                           Http(304, "none", TRUE, BodyPad)},
                 checks |-> {"ok"}, patches |-> {}]
    /\ used = [ops |-> 0, max |-> MaxCancelOps, connects |-> 0, connected_ok |-> 0]

NextCancel ==
    \/ ConnectCheck
    \/ ConnectBuild
    \/ DropDevice
    \/ \E g \in Gens : PollSend(g)
    \/ \E g \in Gens : PollRespond(g)
    \/ \E g \in Gens : PollInsert(g)
    \/ \E g \in Gens : PollEmit(g)
    \/ \E g \in Gens : PollCancel(g)
    \/ \E g \in Gens : ProjRecv(g)

FairCancel ==
    \A g \in Gens :
        /\ WF_vars(PollSend(g))
        /\ WF_vars(PollInsert(g))
        /\ WF_vars(PollEmit(g))
        /\ SF_vars(PollCancel(g))

SpecCancel == InitCancel /\ [][NextCancel]_vars /\ FairCancel

\* The same run with the projector task scheduled as well: it takes what
\* its Receiver has ready (device.rs:322-357)
FairReconnect ==
    /\ FairCancel
    /\ \A g \in Gens : WF_vars(ProjRecv(g))

SpecReconnect == InitCancel /\ [][NextCancel]_vars /\ FairReconnect

\* A run that follows one channel: one connection to a device whose every
\* response reports one entry of channel 0 of input bank 0 (its phantom
\* power flag or a trim setting), or the name of output bank 1
ChanResponses ==
    { Http(200, "e1", TRUE, b) :
        b \in {Body48V, BodyTrim, BodyTrimRange, BodyStereoTrim,
               KStereoTrimRange :> JString(<<"0", ":", "1">>), BodyOut1Name} }

InitChan ==
    /\ NewDevice
    /\ device = [gets |-> ChanResponses, checks |-> {"ok"}, patches |-> {}]
    /\ used = [ops |-> 0, max |-> MaxChanOps, connects |-> 0, connected_ok |-> 0]

NextChan ==
    \/ (used.connects = 0 /\ ConnectCheck)
    \/ ConnectBuild
    \/ PollSend(1)
    \/ PollRespond(1)
    \/ PollInsert(1)
    \/ PollEmit(1)
    \/ ProjRecv(1)

SpecChan == InitChan /\ [][NextChan]_vars

\* A run that decodes one string and writes the value back: a device whose
\* datastore holds one entry, a string, under a key with or without a
\* name-like segment; one connection; the owner writes a cached value back
\* and the device accepts the write.
\* The strings: bool:<digit>, enum strings that follow the grammar
\* enum:<sel>:<int>=<label>:... and enum strings that do not, strings of
\* several segments, of one segment, and the empty string
RawStrings ==
    { <<"bool", ":", "1">>, <<"bool", ":", "0">>,
      <<"enum", ":", "1", ":", "0", "=", "Off", ":", "1", "=", "On">>,
      <<"enum", ":", "2">>,
      <<"enum", ":", "x">>,
      <<"enum">>,
      <<"enum", ":", "1", ":", "Off">>,
      <<"enum", ":", "1", ":", "0">>,
      <<"enum", ":", "1", ":", "x", "=", "On">>,
      <<"a", ":", "b", ":", "c">>, <<"a", ":", "b">>, <<"single">>, <<>> }
CodecKeys == {KSrc, KName, KDefaultName}

InitCodec ==
    /\ NewDevice
    /\ \E k \in CodecKeys, raw \in RawStrings :
         device = [gets |-> {Http(200, "e1", TRUE, k :> JString(raw))},
                   checks |-> {"ok"}, patches |-> {PatchResponse(204, TRUE)}]
    /\ used = [ops |-> 0, max |-> MaxCodecOps, connects |-> 0, connected_ok |-> 0]

NextCodec ==
    \/ (used.connects = 0 /\ ConnectCheck)
    \/ ConnectBuild
    \/ PollSend(1)
    \/ PollRespond(1)
    \/ PollInsert(1)
    \/ PollEmit(1)
    \/ ProjRecv(1)
    \/ SetCached
    \/ SetKeysRespond
    \/ SetKeysInsert
    \/ SetKeysEmit

SpecCodec == InitCodec /\ [][NextCodec]_vars

\* A run that feeds the projector paths it cannot take or does not know:
\* one connection to a device whose every response reports one entry of
\* input bank 0, its name, the pad flag of channel 0, or one of the paths
\* above
FaultResponses ==
    { Http(200, "e1", TRUE, b) :
        b \in {BodyName, BodyPad, KChShort :> JNumber(1), KChBadIndex :> JNumber(1),
               KChUnknown :> JNumber(1),
               KBankUnknown :> JNumber(1)} }

InitFault ==
    /\ NewDevice
    /\ device = [gets |-> FaultResponses, checks |-> {"ok"}, patches |-> {}]
    /\ used = [ops |-> 0, max |-> MaxFaultOps, connects |-> 0, connected_ok |-> 0]

NextFault ==
    \/ (used.connects = 0 /\ ConnectCheck)
    \/ ConnectBuild
    \/ PollSend(1)
    \/ PollRespond(1)
    \/ PollInsert(1)
    \/ PollEmit(1)
    \/ ProjRecv(1)

SpecFault == InitFault /\ [][NextFault]_vars

\* A run that builds write requests: one connection to a device whose
\* every response reports one entry, the mono trim or the phantom power
\* flag of channel 0 of input bank 0 or the stereo trim of channel 0 of
\* output bank 1; the owner asks the banks of the model for trim requests
\* and composes Requests of its own
ReqResponses ==
    { Http(200, "e1", TRUE, b) : b \in {BodyTrim, Body48V, KOut1StereoTrim :> JNumber(2)} }

InitReq ==
    /\ NewDevice
    /\ device = [gets |-> ReqResponses, checks |-> {"ok"}, patches |-> {}]
    /\ used = [ops |-> 0, max |-> MaxReqOps, connects |-> 0, connected_ok |-> 0]

NextReq ==
    \/ (used.connects = 0 /\ ConnectCheck)
    \/ ConnectBuild
    \/ PollSend(1)
    \/ PollRespond(1)
    \/ PollInsert(1)
    \/ PollEmit(1)
    \/ ProjRecv(1)
    \/ SetChannelTrim
    \/ ComposeRequests

SpecReq == InitReq /\ [][NextReq]_vars

\* ------------------------------------------------------------- claims
\* The set_keys call that returned last, and what it left behind
WriteReturned == caller.pc = "idle" /\ caller.ret.op = "set_keys"
WriteAnswered == WriteReturned /\ caller.resp.net
\* The Updates the call has put on the bus so far
EmittedByCall ==
    IF updates = 0 THEN <<>>
    ELSE LET log == bus[updates] IN
         SelectSeq(SubSeq(log, caller.at + 1, Len(log)), LAMBDA u : u.by = "write")
\* The batch as Internal Updates, in batch order
BatchUpdates(b) == [i \in 1..Len(b) |-> Update("Internal", b[i][1], b[i][2], "write")]
\* The value the last entry of the batch for `key` carries
LastFor(b, key) ==
    LET I == {i \in 1..Len(b) : b[i][1] = key}
        m == CHOOSE i \in I : \A j \in I : j <= i
    IN  b[m][2]
\* A subscriber whose Receiver is alive and has nothing left to receive
Drained(s) ==
    /\ subs[s].st = "live"
    /\ RecvResult(bus[subs[s].gen], subs[s].next, Senders(subs[s].gen)).r
           \in {"Pending", "Closed"}

\* C1: a poll cycle answered 304 ends at the response: the step that takes
\* the response changes no cache entry and puts nothing on any bus, and no
\* entry of the response is left to be inserted or emitted.
C1_NotModifiedNoEffect ==
    [][\A g \in Gens :
         poller'[g].status = 304 =>
           /\ poller'[g].pc \in {"idle", "dead"}
           /\ poller'[g].pq = <<>>
           /\ poller[g].pc = "wait" => (cache' = cache /\ bus' = bus)]_vars
\* a loop cycle that started from a filled cache and a stored validator
\* was answered 304
C1_Witness ==
    \E g \in Gens :
        /\ poller[g].status = 304
        /\ poller[g].sent # "none"
        /\ \E k \in Keys : cache[k] # Absent

C2_Emitted ==
    (caller.pc \in {"w_insert", "w_emit"} \/ (WriteReturned /\ caller.ret.res.ok))
    => /\ Len(EmittedByCall) <= caller.ins
       /\ caller.ins <= Len(caller.batch)
       /\ EmittedByCall = SubSeq(BatchUpdates(caller.batch), 1, Len(EmittedByCall))
       /\ (WriteReturned /\ updates # 0) => EmittedByCall = BatchUpdates(caller.batch)
       /\ WriteReturned =>
            \A s \in SubIds :
              (Drained(s) /\ subs[s].gen = updates /\ subs[s].at <= caller.at)
              => SelectSeq(SubSeq(subs[s].got, caller.at - subs[s].at + 1, Len(subs[s].got)),
                           LAMBDA u : u.by = "write") = BatchUpdates(caller.batch)
C2_AtReturn ==
    (caller.pc # "idle" /\ WriteReturned' /\ caller'.ret.res.ok)
    => \A i \in 1..Len(caller'.batch) :
         LET k == caller'.batch[i][1] IN
         k \notin caller'.raced => cache'[k] = LastFor(caller'.batch, k)
C3_Original ==
    (WriteAnswered /\ caller.resp.status \notin {200, 204})
    => /\ caller.ret.res = BadResponse(caller.resp.status, BodyText(caller.resp.status))
       /\ caller.ins = 0
       /\ EmittedByCall = <<>>

\* C3 (amended): when the device answers a write with a status other than
\* 200/204, set_keys returns an error, no entry of the batch has been
\* inserted and the call has emitted no Update; the error is BadResponse
\* with that status and the body text when the body could be read, and the
\* request error of the failed read otherwise.
C3_BadStatusRejected ==
    (WriteAnswered /\ caller.resp.status \notin {200, 204})
    => /\ ~caller.ret.res.ok
       /\ caller.ret.res =
            IF caller.resp.text_ok
            THEN BadResponse(caller.resp.status, BodyText(caller.resp.status))
            ELSE Err("RequestError")
       /\ caller.ins = 0
       /\ EmittedByCall = <<>>
\* a write was answered 500 and returned BadResponse while the Device had
\* a bus with a live Receiver
C3_Witness ==
    /\ WriteAnswered /\ caller.resp.status = 500
    /\ caller.ret.res.err = "BadResponse"
    /\ updates # 0 /\ SendOk(updates)

\* C4 (as claimed): whenever set_keys returns an error, no entry of the
\* batch has been applied to the cache.
C4_Original == (WriteReturned /\ ~caller.ret.res.ok) => caller.ins = 0

\* C5 (as claimed): when the entry poll is about to decode fails to decode,
\* the poll task stays alive and goes on with the remaining entries of the
\* response.
C5_Original ==
    [][\A g \in Gens :
         (/\ poller[g].pc = "insert"
          /\ poller'[g] # poller[g]
          /\ ~DecodeEntry(Head(poller[g].pq)[1], Head(poller[g].pq)[2]).ok)
         => /\ poller'[g].pc # "dead"
            /\ Tail(poller[g].pq) # <<>> =>
                 (poller'[g].pc = "insert" /\ poller'[g].pq = Tail(poller[g].pq))]_vars

\* C6: every Update a poll task has put on a bus or holds ready to send is
\* tagged External, and every Update set_keys has put on a bus is tagged
\* Internal.
C6_TagsByOrigin ==
    /\ \A g \in Gens : \A i \in 1..Len(bus[g]) :
         /\ bus[g][i].by = "poll" => bus[g][i].tag = "External"
         /\ bus[g][i].by = "write" => bus[g][i].tag = "Internal"
    /\ \A g \in Gens : poller[g].cur.some => poller[g].cur.v.tag = "External"
\* a bus carries an Update of a poll cycle and an Update of a write
C6_Witness ==
    \E g \in Gens : \E i, j \in 1..Len(bus[g]) :
        bus[g][i].by = "poll" /\ bus[g][j].by = "write"

\* C7 (as claimed): updates() returns an error as long as no connect call
\* has returned Ok.
C7_Original ==
    (caller.ret.op = "updates" /\ used.connected_ok = 0) => ~caller.ret.res.ok

\* C8 (as claimed): input_banks() and output_banks() return an error as
\* long as no connect call has returned Ok.
C8_Original ==
    (caller.ret.op \in {"input_banks", "output_banks"} /\ used.connected_ok = 0)
    => ~caller.ret.res.ok

C10_StalledSubscriberLags ==
    /\ \A g \in Gens : poller[g].pc = "emit" => ENABLED PollEmit(g)
    /\ caller.pc = "w_emit" => ENABLED SetKeysEmit
    /\ \A g \in Gens :
         (/\ map_update[g].st = "task"
          /\ map_update[g].next <= Len(bus[g])
          /\ Len(bus[g]) - map_update[g].next < BusCapacity)
         => /\ ENABLED ProjRecv(g)
            /\ RecvResult(bus[g], map_update[g].next, Senders(g)).r = "Ok"
    /\ \A s \in SubIds :
         (/\ subs[s].st = "live"
          /\ ~subs[s].lagged
          /\ Len(bus[subs[s].gen]) - (subs[s].at + Len(subs[s].got)) > BusCapacity)
         => RecvResult(bus[subs[s].gen], subs[s].next, Senders(subs[s].gen)).r = "Lagged"
\* a subscriber that stopped receiving got Lagged after the projector task
\* had received more than BusCapacity Updates
C10_Witness ==
    /\ subs[1].last = "Lagged"
    /\ subs[1].got = <<>>
    /\ map_update[1].st = "task"
    /\ map_update[1].next > BusCapacity + 1

\* C11: the bank maps a Device holds, and the bank maps of every connection,
\* were built after the first poll cycle of their connection had ended Ok,
\* every entry of its response inserted; the step that builds them finds
\* that cycle ended.
C11_ModelAfterFirstCycle ==
    /\ \A g \in Gens :
         (input_banks = g \/ output_banks = g \/ banks[g].ibank.some \/ banks[g].obank.some)
         => /\ poller[g].cached = Some(Ok("unit"))
            /\ ~poller[g].first
    /\ \A g \in Gens :
         (poller[g].first /\ poller[g].pc # "none")
         => (input_banks # g /\ output_banks # g /\ ~banks[g].ibank.some)
\* the Device holds the model of a first connection while the first cycle
\* of a second connection has failed
C11_Witness ==
    /\ input_banks # 0 /\ output_banks # 0
    /\ \E g \in Gens : poller[g].cached.some /\ ~poller[g].cached.v.ok

\* C12 (as claimed): once a poll cycle of a connection has ended with a
\* transport error, its poll task is over: a task whose first cycle ended
\* with the request error has no request in flight and no entry to insert
\* or emit.
C12_Original ==
    \A g \in Gens :
        (poller[g].cached = Some(Err("RequestError")))
        => poller[g].pc \notin {"wait", "insert", "emit"}

\* The connect call of the Device's current connection returned Ok and its
\* poll task has ended in the loop with a transport error (no status line
\* was received, and its cancel Sender is still held)
DiedOfTransport(g) ==
    /\ g # 0 /\ conn_cancel = g /\ output_banks = g
    /\ poller[g].pc = "dead" /\ poller[g].status = 0

\* C13 (as claimed): an updates() call made after the poll task of the
\* current connection has ended with a transport error reports that the
\* connection is no longer live.
C13_Original ==
    [][(Updates /\ DiedOfTransport(updates)) => ~caller'.ret.res.ok]_vars

\* C14 (as claimed): a connect call on a Device on which a connect has
\* succeeded returns an error at once, starts no poll task and replaces
\* neither the cancel Sender nor the bus Sender.
C14_Original ==
    [][(ConnectCheck /\ used.connected_ok > 0)
       => /\ caller'.pc = "idle"
          /\ ~caller'.ret.res.ok
          /\ poller' = poller
          /\ updates' = updates
          /\ conn_cancel' = conn_cancel]_vars

\* C15 (as claimed): once the cancel Sender of a connection is gone, its
\* poll task ends, whether or not the device answers the request in
\* flight.
C15_Original ==
    \A g \in Gens :
        (CancelRaised(g) /\ poller[g].pc \notin {"none", "dead"}) ~> (poller[g].pc = "dead")

\* The part of C15 that the loop of device.rs:288-304 keeps: a task that
\* has left its first cycle ends once its cancel Sender is gone.
C15_InLoop ==
    \A g \in Gens :
        (CancelRaised(g) /\ ~poller[g].first /\ poller[g].pc # "none")
        ~> (poller[g].pc = "dead")

\* C16 (as claimed): no step taken while a poll request is in flight is
\* the cancel branch of select!: the request ends with its response or
\* its error.
C16_Original ==
    [][\A g \in Gens : ~(poller[g].pc = "wait" /\ PollCancel(g))]_vars

\* The step of poll task g sends a request / takes the answer to one
RequestStep(g) == poller[g].pc = "idle" /\ poller'[g].pc = "wait"
AnswerStep(g) == poller[g].pc = "wait" /\ poller'[g].pc # "wait"

\* C17 (as claimed): a request carries the stored validator, which is none
\* in the first cycle, and the stored validator is the one of the most
\* recent response that carried one: a response with an ETag header
\* replaces it and every other answer leaves it as it is.
C17_Original ==
    [][\A g \in Gens :
         /\ RequestStep(g) =>
              /\ poller'[g].sent = poller[g].etag
              /\ poller[g].first => poller'[g].sent = "none"
         /\ AnswerStep(g) =>
              poller'[g].etag = IF poller'[g].tag # "none" THEN poller'[g].tag
                                ELSE poller[g].etag]_vars

\* C17 (amended): a request carries the stored validator, which is none in
\* the first cycle; a response with a status other than 304 replaces the
\* stored validator by its ETag header, by none when it has no such
\* header; a 304, a transport error and a cancellation leave it as it is.
C17_ValidatorOfLastFullResponse ==
    [][\A g \in Gens :
         /\ RequestStep(g) =>
              /\ poller'[g].sent = poller[g].etag
              /\ poller[g].first => poller'[g].sent = "none"
         /\ AnswerStep(g) =>
              poller'[g].etag = IF poller'[g].status \notin {0, 304} THEN poller'[g].tag
                                ELSE poller[g].etag]_vars
\* a request went out with no validator after a response had carried one
C17_Witness ==
    \E g \in Gens :
        /\ poller[g].pc = "wait" /\ poller[g].sent = "none"
        /\ \E i \in 1..Len(bus[g]) : bus[g][i].key = KName /\ bus[g][i].by = "poll"

\* C18: a poll task issues a request only when no entry of an earlier
\* response is left to insert or emit; a bus changes only by one Update
\* added behind all others, and an Update of a poll task is added by the
\* task's emit step for the entry at the head of the response it is
\* working on.
C18_ResponsesInOrder ==
    [][\A g \in Gens :
         /\ RequestStep(g) => (poller[g].pq = <<>> /\ ~poller[g].cur.some)
         /\ bus'[g] # bus[g] =>
              /\ Len(bus'[g]) = Len(bus[g]) + 1
              /\ SubSeq(bus'[g], 1, Len(bus[g])) = bus[g]
              /\ LET u == bus'[g][Len(bus'[g])] IN
                 u.by = "poll" =>
                   /\ poller[g].pc = "emit"
                   /\ u = poller[g].cur.v
                   /\ u.key = Head(poller[g].pq)[1]
                   /\ u.tag = "External"]_vars
\* the third request of a poll task is out and its bus holds the Updates
\* of two responses
C18_Witness ==
    \E g \in Gens :
        /\ poller[g].pc = "wait"
        /\ \E i, j \in 1..Len(bus[g]) :
             /\ i < j /\ bus[g][i].by = "poll" /\ bus[g][j].by = "poll"
             /\ bus[g][i].key # bus[g][j].key

\* The projector task of connection g takes an Update from its bus
ProjTakes(g) ==
    /\ map_update[g].st = "task"
    /\ RecvResult(bus[g], map_update[g].next, Senders(g)).r = "Ok"
    /\ map_update'[g] # map_update[g]
\* The bank map m after the per-entry routine has applied u to the bank of
\* u's index (as it is when there is no such bank or the routine fails)
Routed(m, u) ==
    LET i == IntOf(<<u.key[3]>>) IN
    IF i \notin DOMAIN m THEN m
    ELSE LET r == BankUpdate(m[i], SubSeq(u.key, 4, Len(u.key)), u.val) IN
         IF r.ok THEN Put(m, i, r.v) ELSE m
\* u is an Update for a bank of direction dir ("ibank" / "obank")
ForBank(u, dir) ==
    Len(u.key) > 2 /\ u.key[1] = "ext" /\ u.key[2] = dir /\ IsInt(<<u.key[3]>>)

\* C19 (as claimed): when the projector takes an Update for output bank i
\* it applies it to output bank i and leaves the input banks as they are,
\* and the other way round for an Update for input bank i.
C19_Original ==
    [][\A g \in Gens :
         ProjTakes(g) =>
           LET u == bus[g][map_update[g].next] IN
           /\ ForBank(u, "obank") =>
                /\ banks'[g].ibank = banks[g].ibank
                /\ banks'[g].obank = Some(Routed(banks[g].obank.v, u))
           /\ ForBank(u, "ibank") =>
                /\ banks'[g].obank = banks[g].obank
                /\ banks'[g].ibank = Some(Routed(banks[g].ibank.v, u))]_vars

\* The projector task of connection g has applied every Update of its bus
\* and the poll task is between two cycles
Replayed(g) ==
    /\ map_update[g].st = "task"
    /\ map_update[g].next = Len(bus[g]) + 1
    /\ poller[g].pc = "idle"

\* C20 (as claimed): when the Flat Cache holds entries of input bank 0 only
\* and the projector has applied every Update, its input banks are what
\* seeding from the Flat Cache gives, in whatever order the entries are
\* scanned.
C20_Original ==
    \A g \in Gens :
        (Replayed(g) /\ Present \subseteq {KName, KPad})
        => \A o \in Orders(Present) :
             LET b == build("ibank", cache, o) IN
             b.ok /\ banks[g].ibank = Some(b.v)

\* Channel c of bank b of the bank map m, as ChannelBank::update finds or
\* makes it
ChannelOf(m, b, c) ==
    IF c \in DOMAIN m[b].channels THEN m[b].channels[c] ELSE NewChannel(c)
\* The last segment of a key
Leaf(key) == key[Len(key)]
\* The field each flag key is said to set
FlagField ==
    [k \in {"pad", "phase", "48V", "connection"} |->
        CASE k = "pad" -> "pad" [] k = "phase" -> "phase"
          [] k = "48V" -> "phantom_power" [] k = "connection" -> "connection"]
\* u is an Update for a flag of channel 0 of input bank 0
FlagUpdate(u) ==
    /\ ForBank(u, "ibank") /\ Len(u.key) = 6 /\ u.key[3] = "0"
    /\ u.key[4] = "ch" /\ u.key[5] = "0" /\ Leaf(u.key) \in DOMAIN FlagField

\* C21 (as claimed): when the projector applies an Update for pad, phase,
\* 48V or connection of a channel, the channel afterwards is the channel
\* before with the key's own field (pad, phase, phantom_power, connection)
\* set to the value and every other field as it was.
C21_Original ==
    [][\A g \in Gens :
         ProjTakes(g) =>
           LET u == bus[g][map_update[g].next]
               m == banks[g].ibank.v
           IN  (FlagUpdate(u) /\ 0 \in DOMAIN m /\ ToBool(u.val).ok) =>
                 ChannelOf(banks'[g].ibank.v, 0, 0) =
                   [ChannelOf(m, 0, 0) EXCEPT ![FlagField[Leaf(u.key)]] =
                        Some(ToBool(u.val).v)]]_vars

\* The keys that address the mono and the stereo variant of a Trim
TrimKeys ==
    [kind \in {"Mono", "Stereo"} |->
        IF kind = "Mono" THEN {"trim", "trimRange"}
        ELSE {"stereoTrim", "stereoTrimRange"}]
OtherKind(kind) == IF kind = "Mono" THEN "Stereo" ELSE "Mono"
\* u is an Update for a trim key of the given variant of channel 0 of
\* input bank 0
TrimUpdate(u, kind) ==
    /\ ForBank(u, "ibank") /\ Len(u.key) = 6 /\ u.key[3] = "0"
    /\ u.key[4] = "ch" /\ u.key[5] = "0" /\ Leaf(u.key) \in TrimKeys[kind]
\* Channel 0 of input bank 0 of connection g has a Trim
HasTrim(g) ==
    /\ banks[g].ibank.some
    /\ 0 \in DOMAIN banks[g].ibank.v
    /\ 0 \in DOMAIN banks[g].ibank.v[0].channels
    /\ banks[g].ibank.v[0].channels[0].trim.some
TrimOf(bs) == bs.ibank.v[0].channels[0].trim.v

\* C22: once channel 0 of input bank 0 has a Trim, no step changes its
\* variant (mono or stereo), and a step in which the projector applies an
\* Update for a key of the other variant leaves the Trim as it was.
C22_TrimVariantFixed ==
    [][\A g \in Gens :
         HasTrim(g) =>
           /\ TrimOf(banks'[g]).kind = TrimOf(banks[g]).kind
           /\ (ProjTakes(g) /\ TrimUpdate(bus[g][map_update[g].next],
                                          OtherKind(TrimOf(banks[g]).kind)))
                => TrimOf(banks'[g]) = TrimOf(banks[g])]_vars
\* the projector has applied an Update for a mono key and after it one for
\* a stereo key, and the Trim is mono
C22_Witness ==
    \E g \in Gens :
        /\ HasTrim(g)
        /\ TrimOf(banks[g]).kind = "Mono"
        /\ map_update[g].st = "task"
        /\ \E i, j \in 1..(map_update[g].next - 1) :
             /\ i < j
             /\ TrimUpdate(bus[g][i], "Mono")
             /\ TrimUpdate(bus[g][j], "Stereo")

\* Every bank of the map m is stored under its own index and has the
\* direction t
WellKeyed(m, t) == \A i \in DOMAIN m : m[i].index = i /\ m[i].t = t

\* C23: in every state, each bank stored under key i of the input
\* collection has index i and direction Input and each bank stored under
\* key i of the output collection has index i and direction Output, so no
\* update applied to a bank has changed its index or its direction.
C23_BankIdentityFixed ==
    \A g \in Gens :
        /\ banks[g].ibank.some => WellKeyed(banks[g].ibank.v, "Input")
        /\ banks[g].obank.some => WellKeyed(banks[g].obank.v, "Output")
\* the model holds input bank 0 and the projector has applied two Updates
\* to it, one of them for output bank 1
C23_Witness ==
    \E g \in Gens :
        /\ banks[g].ibank.some /\ 0 \in DOMAIN banks[g].ibank.v
        /\ map_update[g].st = "task"
        /\ \E i, j \in 1..(map_update[g].next - 1) :
             /\ ForBank(bus[g][i], "ibank") /\ bus[g][i].key[3] = "0"
             /\ ForBank(bus[g][j], "obank") /\ bus[g][j].key[3] = "1"

\* The entries of the cache that describe a bank of direction dir: a
\* well-formed path under ext/<dir>/<integer>/
BankEntries(dir) ==
    {k \in Present : UriOk(k) /\ Len(k) > 3 /\ k[1] = "ext" /\ k[2] = dir
                                /\ IsInt(<<k[3]>>)}

\* C24 (as claimed): when connect seeds the model after a first cycle that
\* succeeded, it returns Ok whatever other entries the cache holds, and the
\* model holds the bank of every well-formed entry, the entries whose bank
\* index does not parse or whose path is malformed being skipped.
C24_Original ==
    [][(/\ caller.pc = "await_cached"
        /\ caller'.pc = "idle"
        /\ poller[caller.gen].cached = Some(Ok("unit")))
       => /\ caller'.ret.res.ok
          /\ \A k \in BankEntries("ibank") :
               IntOf(<<k[3]>>) \in DOMAIN banks'[caller.gen].ibank.v
          /\ \A k \in BankEntries("obank") :
               IntOf(<<k[3]>>) \in DOMAIN banks'[caller.gen].obank.v]_vars

\* The one entry of the datastore of a device that holds one entry: its
\* key and its string
TheBody == (CHOOSE r \in device.gets : TRUE).body
RawKey == CHOOSE k \in DOMAIN TheBody : TRUE
RawText == TheBody[RawKey].s
\* The keys with "name" in some letter case
NameBearing == {KName, KDefaultName}
\* The poll task has decoded the entry and put it into the cache
Decoded == cache[RawKey] # Absent
\* The first poll cycle of the connection has ended
FirstCycleOver == poller[1].cached.some

\* C25 (as claimed): under a key with no name-like segment the string
\* bool:1 is decoded to Bool(true) and the string bool:0 to Bool(false).
C25_Original ==
    (RawKey \notin NameBearing /\ Decoded) =>
        /\ RawText = <<"bool", ":", "1">> => cache[RawKey] = VBool(TRUE)
        /\ RawText = <<"bool", ":", "0">> => cache[RawKey] = VBool(FALSE)

\* C26: under a key with "name" in any letter case the poll cycle succeeds
\* whatever the string is, and the cache then holds the string itself, as
\* a String, not split and not reinterpreted.
C26_NameKeysUndecoded ==
    RawKey \in NameBearing =>
        /\ FirstCycleOver => poller[1].cached.v = Ok("unit") /\ Decoded
        /\ Decoded => cache[RawKey] = VString(RawText)
\* a string that is no well-formed enum string has arrived under a key
\* that spells the word with a capital, and the cache holds it as it came
C26_Witness ==
    /\ RawKey = KDefaultName
    /\ RawText = <<"enum", ":", "1", ":", "Off">>
    /\ FirstCycleOver
    /\ cache[RawKey] = VString(RawText)

\* The enum strings that follow the grammar, as what they say: the
\* selected integer and the options in order
EnumCases ==
    { [sel |-> 1, opts |-> << <<0, <<"Off">> >>, <<1, <<"On">> >> >>],
      [sel |-> 2, opts |-> <<>>] }
RECURSIVE OptionsText(_)
OptionsText(opts) ==
    IF opts = <<>> THEN <<>>
    ELSE <<":", IntStr(Head(opts)[1]), "=">> \o Head(opts)[2] \o OptionsText(Tail(opts))
EnumText(e) == <<"enum", ":", IntStr(e.sel)>> \o OptionsText(e.opts)

HasDelimiter(text) == \E i \in 1..Len(text) : text[i] = ":"
\* The string is neither empty nor bool:<digit> nor an enum string
PlainText(text) ==
    /\ text # <<>>
    /\ text \notin {<<"bool", ":", "1">>, <<"bool", ":", "0">>}
    /\ Head(text) # "enum"

\* C28 (as claimed): under a key with no name-like segment, a string that
\* is not empty, not bool:<digit> and no enum string is decoded to the Pair
\* of its segments when it has more than one segment and stays the String
\* it was when it has no delimiter.
C28_Original ==
    (RawKey \notin NameBearing /\ PlainText(RawText) /\ Decoded) =>
        cache[RawKey] = IF HasDelimiter(RawText) THEN VPair(Split(RawText, ":"))
                        ELSE VString(RawText)

\* The enum strings that break the grammar: no selector, a selector or an
\* option key that is no integer, an option without "="
MalformedEnums ==
    { <<"enum">>, <<"enum", ":", "x">>, <<"enum", ":", "1", ":", "Off">>,
      <<"enum", ":", "1", ":", "0">>, <<"enum", ":", "1", ":", "x", "=", "On">> }
\* The errors of ValueError
ValueErrors == {"UnableToParseInt", "UnableToParseFloat", "NoValue", "WTF", "ParseIntError"}

\* C29 (as claimed): under a key with no name-like segment, decoding an
\* enum string that breaks the grammar returns a decode error: the poll
\* cycle ends with that error (the task does not panic) and the cache
\* holds no value for the key.
C29_Original ==
    (RawKey \notin NameBearing /\ RawText \in MalformedEnums /\ FirstCycleOver) =>
        /\ ~poller[1].cached.v.ok
        /\ poller[1].cached.v.err \in ValueErrors
        /\ ~Decoded

\* The owner has read the decoded entry and written it back: the body of
\* the PATCH holds its encoding
WrittenBack == caller.pc # "idle" /\ RawKey \in DOMAIN caller.body

C37_Original ==
    [][\A g \in Gens :
         (AnswerStep(g) /\ poller'[g].status \notin {0, 304} /\ poller'[g].tag = "none")
         => poller'[g].etag = poller[g].etag]_vars

\* C37 (amended): a response with a status other than 304 and no ETag
\* header clears the stored validator; the stored validator changes to a
\* validator only by a response with a status other than 304 that carries
\* that validator.
C37_ValidatorClearedWhenAbsent ==
    [][\A g \in Gens :
         /\ (AnswerStep(g) /\ poller'[g].status \notin {0, 304}
                           /\ poller'[g].tag = "none")
            => poller'[g].etag = "none"
         /\ (poller'[g].etag # poller[g].etag /\ poller'[g].etag # "none")
            => /\ AnswerStep(g)
               /\ poller'[g].status \notin {0, 304}
               /\ poller'[g].tag = poller'[g].etag]_vars
\* a response with status 200 and no ETag header has been taken, after a
\* response that carried one, and no validator is stored
C37_Witness ==
    \E g \in Gens :
        /\ poller[g].status = 200 /\ poller[g].tag = "none" /\ poller[g].etag = "none"
        /\ \E i \in 1..Len(bus[g]) : bus[g][i].by = "poll" /\ bus[g][i].key # KOut

OnBus(g, k) == {i \in 1..Len(bus[g]) : bus[g][i].key = k}
LastOnBus(g, k) ==
    bus[g][CHOOSE i \in OnBus(g, k) : \A j \in OnBus(g, k) : j <= i]
\* The Device has connected once, the projector task of that connection
\* is alive (so every send on its bus has succeeded), and neither a write
\* nor a poll cycle of the connection is between its steps
NothingInFlight ==
    /\ used.connects = 1
    /\ map_update[1].st = "task"
    /\ caller.pc = "idle"
    /\ poller[1].pc \notin {"insert", "emit"}

\* C35 (as claimed): when no write and no poll cycle is under way, the
\* cache holds at every path the value of the last Update, Internal or
\* External, that was emitted on the bus for that path, however the
\* steps of a write and of a poll response for the same path interleaved.
C35_Original ==
    \A k \in Keys :
        (NothingInFlight /\ OnBus(1, k) # {}) => cache[k] = LastOnBus(1, k).val

\* C34 (as claimed): after a connect that succeeded, whenever the poll
\* task is between two cycles, no caller operation is under way and the
\* projector task has taken every Update of its bus, the input banks and
\* the output banks of the model are what seeding builds from the cache as
\* it stands.
C34_Original ==
    \A g \in Gens :
        (Replayed(g) /\ caller.pc = "idle") =>
            \A oi \in Orders(Present), oo \in Orders(Present) :
                LET bi == build("ibank", cache, oi)
                    bo == build("obank", cache, oo)
                IN  /\ bi.ok /\ banks[g].ibank = Some(bi.v)
                    /\ bo.ok /\ banks[g].obank = Some(bo.v)

\* The paths the routines cannot apply, and the paths with an attribute
\* name they do not know
BadPaths == {KChShort, KChBadIndex}
UnknownPaths == {KChUnknown, KBankUnknown}
\* The projector task of connection g takes an Update for a bank its map
\* holds, with a path of the set P
ProjTakesOf(g, P) ==
    /\ ProjTakes(g)
    /\ bus[g][map_update[g].next].key \in P
    /\ IntOf(<<bus[g][map_update[g].next].key[3]>>) \in DOMAIN banks[g].ibank.v

\* C33 (as claimed): when the projector task takes an Update whose path
\* cannot be applied, the model stays as it was and the task lives on to
\* take the later Updates.
C33_Original ==
    [][\A g \in Gens :
         ProjTakesOf(g, BadPaths) =>
            /\ banks'[g] = banks[g]
            /\ map_update'[g].st = "task"]_vars

\* C36 (as claimed): when the projector task applies an Update whose bank
\* attribute or channel attribute is not a known name, the update succeeds
\* (the task lives on) and the bank is as it was, its channel map
\* included.
C36_Original ==
    [][\A g \in Gens :
         ProjTakesOf(g, UnknownPaths) =>
            /\ banks'[g] = banks[g]
            /\ map_update'[g].st = "task"]_vars

\* The Request the bank i of direction dir is said to give for the trim t
\* of its channel ch: none without the channel or without a Trim of it
TrimRequest(bs, dir, i, ch, t) ==
    LET b == bs[dir].v[i] IN
    IF ch \notin DOMAIN b.channels \/ ~b.channels[ch].trim.some THEN NoneO
    ELSE Some([key |-> <<"ext", "/", dir, "/", IntStr(i), "/", "ch", "/", IntStr(ch), "/",
                         IF b.channels[ch].trim.v.kind = "Mono" THEN "trim"
                         ELSE "stereoTrim">>,
               val |-> VInt(t)])

\* C31: set_channel_trim(ch, t) on a bank of the model returns None when
\* the bank has no channel ch or the channel has no Trim, and otherwise the
\* Request with the path ext/<ibank|obank>/<bank index>/ch/<ch>/trim for a
\* mono channel, .../stereoTrim for a stereo channel, and the value Int(t).
C31_TrimRequest ==
    [][SetChannelTrim =>
         LET r == caller'.ret.res.v
             g == IF r.dir = "ibank" THEN input_banks ELSE output_banks
         IN  r.req = TrimRequest(banks[g], r.dir, r.bank, r.ch, r.t)]_vars
\* output bank 1, whose channel 0 has a stereo Trim, has given a Request
C31_Witness ==
    /\ caller.ret.op = "set_channel_trim"
    /\ caller.ret.res.v.dir = "obank" /\ caller.ret.res.v.bank = 1
    /\ caller.ret.res.v.req.some
    /\ caller.ret.res.v.req.v.val = VInt(2)

\* C32: the sum of two Requests has the first path, "/", and the second
\* path as its path and the second value as its value, and three Requests
\* add up to the same Request from the left and from the right.
C32_AddJoinsAndAssociates ==
    caller.ret.op = "add" =>
        LET r == caller.ret.res.v IN
        /\ r.ab = [key |-> r.a.key \o <<"/">> \o r.b.key, val |-> r.b.val]
        /\ r.left = r.right
\* three Requests with different values have been added to a full path
C32_Witness ==
    /\ caller.ret.op = "add"
    /\ caller.ret.res.v.left.key =
         <<"ext", "/", "ibank", "/", "0", "/", "ch", "/", "0", "/", "trim">>
    /\ caller.ret.res.v.left.val = VInt(2)

====
